---- MODULE Spec2Model ----
(***************************************************************************)
(* Model of src/src/index.ts: one RPCListener and one RPCExecutor bound to *)
(* the same channel (the composition RPCMulti builds), the redis 'message' *)
(* handler with its Map.forEach fan-out, and the callbacks' re-entrant     *)
(* calls of onMessage / removeListener / sendMessage.                      *)
(***************************************************************************)
EXTENDS Naturals, Sequences, FiniteSets

\* ------------------------------------------------------------------ bounds
\* number of identifiers randomUUID() can hand out (= onMessage calls)
MaxUUID == 3
\* number of publishes in flight on the transport
MaxWire == 1

\* --------------------------------------------------------------- JS values
\* A JavaScript value: t is its kind, n the number (or 1/0 for a boolean),
\* s the string.  "NaN" is the number NaN.
Val(t, n, s) == [t |-> t, n |-> n, s |-> s]
Num(n) == Val("number", n, "")
Str(s) == Val("string", 0, s)
Bool(b) == Val("boolean", IF b THEN 1 ELSE 0, "")
NaN == Val("NaN", 0, "")
Null == Val("null", 0, "")
Undefined == Val("undefined", 0, "")

\* typeof v
TypeOf(v) ==
    CASE v.t \in {"number", "NaN"} -> "number"
      [] v.t = "string" -> "string"
      [] v.t = "boolean" -> "boolean"
      [] v.t = "null" -> "object"
      [] OTHER -> "undefined"

\* ToNumber(string) as the abstract equality comparison applies it
StringToNumber(s) ==
    CASE s = "1" -> Num(1)
      [] s = "2" -> Num(2)
      [] s = "" -> Num(0)
      [] OTHER -> NaN

\* ToNumber(v) for the primitive values of the model
ToNumber(v) ==
    CASE v.t = "string" -> StringToNumber(v.s)
      [] v.t = "boolean" -> Num(v.n)
      [] v.t = "null" -> Num(0)
      [] v.t = "undefined" -> NaN
      [] OTHER -> v

\* a === b
StrictEquals(a, b) == a.t # "NaN" /\ a = b

\* a == b with a a number: null and undefined equal only each other, a
\* string or boolean operand is converted with ToNumber first
LooseEqualsTruthy(a, b) == b.t \notin {"null", "undefined"}
LooseEquals(a, b) ==
    IF b.t \in {"null", "undefined"} THEN FALSE
    ELSE StrictEquals(a, ToNumber(b))

\* ------------------------------------------------------------------- input
UUIDNames == <<"u1", "u2", "u3", "u4", "u5", "u6">>
\* the strings randomUUID() can return
UUIDs == {UUIDNames[i] : i \in 1..MaxUUID}
\* the opcodes callers register and publish
Opcodes == {1, 2}
\* the payloads callers publish: NaN, which JSON writes as null (the string
\* "x" comes with the messages of other publishers)
Payloads == {NaN}
\* the opcodes callers publish (opcode 2 comes with the messages of other
\* publishers)
Published == {1}
\* the arguments callers pass to removeListener
Targets == {Str(u) : u \in UUIDs} \cup {Str("1")}
             \cup {Num(o) : o \in Opcodes} \cup {NaN, Undefined}
\* the channel of the listener and the executor, and another one that is
\* delivered on the same connection
channel == "rpc"

\* --------------------------------------------------------------- JSON codec
\* The text on the wire: either not JSON at all, or the JSON text "null", or
\* a JSON object whose members op and d are given (Undefined: no member).
Malformed == [kind |-> "malformed", op |-> Undefined, d |-> Undefined]
NullText == [kind |-> "null", op |-> Undefined, d |-> Undefined]
ObjectText(op, d) == [kind |-> "object", op |-> op, d |-> d]

\* what JSON.stringify writes for a member value: NaN becomes null, an
\* undefined member is left out
ToJSON(v) == IF v.t = "NaN" THEN Null ELSE v

\* JSON.stringify({ op: code, d: data })
JSONstringify(code, data) == ObjectText(ToJSON(code), ToJSON(data))

\* JSON.parse(rawContent): ok = FALSE when it throws a SyntaxError
JSONparse(rawContent) ==
    IF rawContent.kind = "malformed"
    THEN [ok |-> FALSE, value |-> rawContent]
    ELSE [ok |-> TRUE, value |-> rawContent]

\* the messages other publishers put on the connection
ForeignOps == {Num(1), Num(2), Str("1"), Null, Undefined}
ForeignTexts == {Malformed, NullText}
                  \cup {ObjectText(op, Str("x")) : op \in ForeignOps}
ForeignMessages ==
    {[channel |-> channel, raw |-> t] : t \in ForeignTexts}
      \cup {[channel |-> "other", raw |-> ObjectText(Num(1), Str("x"))]}

\* ------------------------------------------------------------------- state
VARIABLES
    callbacks,  \* RPCListener._callbacks: the entries in insertion order
    issued,     \* the identifiers randomUUID() has returned
    wire,       \* the publishes of the executor the transport has not delivered
    pc,         \* "idle", or "callback" while a callback of a dispatch runs
    msg,        \* the message the handler was last invoked with
    pos,        \* entries of callbacks the running forEach has passed
    invoked,    \* the callbacks the handler has invoked for msg, in order
    atStart,    \* the identifiers that carried msg's opcode when the handler was invoked
    nStart,     \* the number of registrations when the handler was invoked
    outcome,    \* how the handler ended for msg
    lastCall,   \* the last onMessage/removeListener/sendMessage call of the code now running
    sub,        \* the state of the constructor's redis.subscribe(channel) promise
    log         \* the lines written with console.error

vars == <<callbacks, issued, wire, pc, msg, pos, invoked, atStart, nStart, outcome, lastCall, sub, log>>

Entry(uuid, code) == [uuid |-> uuid, code |-> code]
Keys(m) == {m[i].uuid : i \in 1..Len(m)}

\* the identifiers of the registrations of m that carry the opcode op
Carrying(m, op) == {m[i].uuid : i \in {j \in 1..Len(m) : Num(m[j].code) = op}}

\* Map.prototype.set: a new key is appended, an existing key keeps its place
MapSetInFront(m, key, code) == <<Entry(key, code)>> \o m
MapSet(m, key, code) ==
    IF key \in Keys(m)
    THEN [i \in 1..Len(m) |-> IF m[i].uuid = key THEN Entry(key, code) ELSE m[i]]
    ELSE Append(m, Entry(key, code))

\* Map.prototype.delete
MapDeleteSameCode(m, key) ==
    SelectSeq(m, LAMBDA e : \A i \in 1..Len(m) : m[i].uuid = key => m[i].code # e.code)
MapDelete(m, key) == SelectSeq(m, LAMBDA e : e.uuid # key)

\* The place of a running forEach after the map changed from m to m2: the
\* entries it had passed that are still there.  Entries are only appended
\* at the end, so an iteration meets the ones added while it runs and
\* misses the ones deleted before it reaches them.
CursorShiftAll(m, m2, p) ==
    IF p >= Len(m) - Len(m2) /\ Len(m) >= Len(m2) THEN p - (Len(m) - Len(m2)) ELSE p
Cursor(m, m2, p) == Cardinality({i \in 1..p : m[i].uuid \in Keys(m2)})

\* no message yet in this turn, no call yet by the code now running
NoMessage == [channel |-> "", raw |-> Malformed]
NoCall == [op |-> "none", arg |-> Undefined, threw |-> FALSE, pub |-> 0]

Init ==
    /\ callbacks = <<>>
    /\ issued = {}
    /\ wire = <<>>
    /\ pc = "idle"
    /\ msg = NoMessage
    /\ pos = 0
    /\ invoked = <<>>
    /\ atStart = {}
    /\ nStart = 0
    /\ outcome = "none"
    /\ lastCall = NoCall
    /\ sub = "pending"
    /\ log = <<>>

\* -------------------------------------------------------------- RPCListener
\* this.redis.subscribe(channel).catch(error => console.error(`RPC Error: ${error}`))
\* what becomes of a rejected subscribe: the line logged and the promise's end
SubscribeCatchNone == [log |-> <<>>, sub |-> "unhandled"]
SubscribeCatch == [log |-> <<"RPC Error">>, sub |-> "failed"]

\* the transport confirms the subscription, in a turn of the event loop of
\* its own
SubscribeResolves ==
    /\ sub = "pending" /\ pc = "idle"
    /\ sub' = "subscribed"
    /\ lastCall' = NoCall
    /\ UNCHANGED <<callbacks, issued, wire, pc, msg, pos, invoked, atStart, nStart, outcome, log>>

\* the transport fails the subscription
SubscribeRejects ==
    /\ sub = "pending" /\ pc = "idle"
    /\ sub' = SubscribeCatch.sub
    /\ log' = log \o SubscribeCatch.log
    /\ lastCall' = NoCall
    /\ UNCHANGED <<callbacks, issued, wire, pc, msg, pos, invoked, atStart, nStart, outcome>>

\* this._callbacks.forEach(data => { if (data[0] == content.op) data[1](content.d) })
\* from the entry after the p-th: runs up to the next callback it invokes,
\* or to the end of the map, or to the TypeError of null.op
RECURSIVE ForEachFrom(_, _, _)
ForEachFrom(m, content, p) ==
    IF p >= Len(m)
    THEN [pc |-> "idle", pos |-> 0, outcome |-> "returned", hit |-> <<>>]
    ELSE IF content.kind = "null"
    THEN [pc |-> "idle", pos |-> 0, outcome |-> "TypeError", hit |-> <<>>]
    ELSE IF LooseEquals(Num(m[p + 1].code), content.op)
    THEN [pc |-> "callback", pos |-> p + 1, outcome |-> "running",
          hit |-> <<[uuid |-> m[p + 1].uuid, code |-> m[p + 1].code, d |-> content.d]>>]
    ELSE ForEachFrom(m, content, p + 1)

\* if (rawChannel !== channel) return
ChannelFilterAny(rawChannel) == TRUE
ChannelFilter(rawChannel) == rawChannel = channel

\* the 'message' handler up to the first callback it invokes
HandlerStart(rawChannel, rawContent) ==
    IF ~ChannelFilter(rawChannel)
    THEN [pc |-> "idle", pos |-> 0, outcome |-> "returned", hit |-> <<>>]
    ELSE IF ~JSONparse(rawContent).ok
    THEN [pc |-> "idle", pos |-> 0, outcome |-> "SyntaxError", hit |-> <<>>]
    ELSE ForEachFrom(callbacks, JSONparse(rawContent).value, 0)

\* the connection receives the messages of the listener's channel once the
\* subscription stands
OnRedisMessage(rawChannel, rawContent) ==
    LET r == HandlerStart(rawChannel, rawContent) IN
    /\ pc = "idle"
    /\ rawChannel = channel => sub = "subscribed"
    /\ msg' = [channel |-> rawChannel, raw |-> rawContent]
    /\ atStart' = IF rawChannel = channel THEN Carrying(callbacks, rawContent.op) ELSE {}
    /\ nStart' = IF rawChannel = channel THEN Len(callbacks) ELSE 0
    /\ pc' = r.pc
    /\ pos' = r.pos
    /\ outcome' = r.outcome
    /\ invoked' = r.hit
    /\ lastCall' = NoCall
    /\ UNCHANGED <<callbacks, issued, sub, log>>

\* the transport delivers a publish of the executor
Deliver ==
    /\ wire # <<>>
    /\ OnRedisMessage(Head(wire).channel, Head(wire).raw)
    /\ wire' = Tail(wire)

\* the transport delivers a message of another publisher
ForeignMessage ==
    \E m \in ForeignMessages :
        /\ OnRedisMessage(m.channel, m.raw)
        /\ UNCHANGED wire

\* the running callback returns: forEach goes on
CallbackReturn ==
    LET r == ForEachFrom(callbacks, JSONparse(msg.raw).value, pos) IN
    /\ pc = "callback"
    /\ pc' = r.pc
    /\ pos' = r.pos
    /\ outcome' = r.outcome
    /\ invoked' = invoked \o r.hit
    /\ lastCall' = NoCall
    /\ UNCHANGED <<callbacks, issued, wire, msg, atStart, nStart, sub, log>>

\* the running callback throws: nothing catches it in forEach or the handler
CallbackThrow ==
    /\ pc = "callback"
    /\ pc' = "idle"
    /\ pos' = 0
    /\ outcome' = "CallbackError"
    /\ lastCall' = NoCall
    /\ UNCHANGED <<callbacks, issued, wire, msg, invoked, atStart, nStart, sub, log>>

\* An onMessage/removeListener/sendMessage call made while no handler runs
\* opens a new turn of the event loop: the record of the last handler run
\* (msg, invoked, atStart, nStart, outcome) is of the turn before and is cleared.  A
\* call made by a running callback belongs to the handler's turn.
ApiCall(op, arg, threw, pub) ==
    /\ lastCall' = [op |-> op, arg |-> arg, threw |-> threw, pub |-> pub]
    /\ UNCHANGED <<pc, sub, log>>
    /\ IF pc = "idle"
       THEN /\ msg' = NoMessage
            /\ invoked' = <<>>
            /\ atStart' = {}
            /\ nStart' = 0
            /\ outcome' = "none"
       ELSE UNCHANGED <<msg, invoked, atStart, nStart, outcome>>

\* randomUUID(): an identifier it has not returned before
randomUUIDBySize == UUIDNames[Len(callbacks) + 1]
randomUUID == UUIDNames[Cardinality(issued) + 1]

\* onMessage(code, callback), from the application or from a running callback
OnMessage(code) ==
    /\ Cardinality(issued) < MaxUUID
    /\ callbacks' = MapSet(callbacks, randomUUID, code)
    /\ issued' = issued \cup {randomUUID}
    /\ ApiCall("onMessage", Num(code), FALSE, 0)
    /\ UNCHANGED <<wire, pos>>

\* this._callbacks.forEach((data, uuid) => { if (data[0] === target) this._callbacks.delete(uuid) })
\* from the entry after the p-th; a deleted entry leaves the iteration in place
RECURSIVE RemoveForEachSkipping(_, _, _)
RemoveForEachSkipping(m, target, p) ==
    IF p >= Len(m) THEN m
    ELSE IF StrictEquals(Num(m[p + 1].code), target)
    THEN RemoveForEachSkipping(MapDelete(m, m[p + 1].uuid), target, p + 1)
    ELSE RemoveForEachSkipping(m, target, p + 1)

RECURSIVE RemoveForEach(_, _, _)
RemoveForEach(m, target, p) ==
    IF p >= Len(m) THEN m
    ELSE IF StrictEquals(Num(m[p + 1].code), target)
    THEN RemoveForEach(MapDelete(m, m[p + 1].uuid), target,
                       Cursor(m, MapDelete(m, m[p + 1].uuid), p + 1))
    ELSE RemoveForEach(m, target, p + 1)

RemoveListenerResultLenient(m, target) ==
    IF TypeOf(target) = "string"
    THEN [map |-> MapDelete(m, target.s), throws |-> FALSE]
    ELSE [map |-> RemoveForEach(m, target, 0), throws |-> FALSE]

RemoveListenerResultMustExist(m, target) ==
    IF TypeOf(target) = "string" /\ target.s \in Keys(m)
    THEN [map |-> MapDelete(m, target.s), throws |-> FALSE]
    ELSE IF TypeOf(target) = "number" /\ Carrying(m, target) # {}
    THEN [map |-> RemoveForEach(m, target, 0), throws |-> FALSE]
    ELSE [map |-> m, throws |-> TRUE]

\* the map removeListener(target) leaves, and whether it throws
RemoveListenerResult(m, target) ==
    IF TypeOf(target) = "string"
    THEN [map |-> MapDelete(m, target.s), throws |-> FALSE]
    ELSE IF TypeOf(target) = "number"
    THEN [map |-> RemoveForEach(m, target, 0), throws |-> FALSE]
    ELSE [map |-> m, throws |-> TRUE]

\* removeListener(target), from the application or from a running callback
RemoveListener(target) ==
    LET r == RemoveListenerResult(callbacks, target) IN
    /\ callbacks' = r.map
    /\ pos' = Cursor(callbacks, r.map, pos)
    /\ ApiCall("removeListener", target, r.throws, 0)
    /\ UNCHANGED <<issued, wire>>

\* -------------------------------------------------------------- RPCExecutor
\* the redis.publish calls sendMessage(code, data) makes, in order; ok tells
\* whether the transport accepts the publish or fails it
SendMessageCallsRetry(code, data, ok) ==
    IF ok
    THEN <<[channel |-> channel, raw |-> JSONstringify(Num(code), data)]>>
    ELSE <<[channel |-> channel, raw |-> JSONstringify(Num(code), data)],
           [channel |-> channel, raw |-> JSONstringify(Num(code), data)]>>
SendMessageCalls(code, data, ok) ==
    <<[channel |-> channel, raw |-> JSONstringify(Num(code), data)]>>

\* sendMessage(code, data): return this.redis.publish(this.channel, JSON.stringify(...))
\* a publish the transport fails reaches no subscriber and rejects the
\* promise sendMessage returns (threw); pub counts the redis.publish calls
SendMessage(code, data) ==
    \E ok \in BOOLEAN :
        LET calls == SendMessageCalls(code, data, ok) IN
        /\ ok => Len(wire) < MaxWire
        /\ wire' = IF ok THEN wire \o calls ELSE wire
        /\ ApiCall("sendMessage", Num(code), ~ok, Len(calls))
        /\ UNCHANGED <<callbacks, issued, pos>>

Next ==
    \/ SubscribeResolves
    \/ SubscribeRejects
    \/ Deliver
    \/ ForeignMessage
    \/ CallbackReturn
    \/ CallbackThrow
    \/ \E code \in Opcodes : OnMessage(code)
    \/ \E target \in Targets : RemoveListener(target)
    \/ \E code \in Published, data \in Payloads : SendMessage(code, data)

Spec == Init /\ [][Next]_vars

TypeOK ==
    /\ pc \in {"idle", "callback"}
    /\ pos \in 0..Len(callbacks)
    /\ Keys(callbacks) \subseteq issued
    /\ outcome \in {"none", "running", "returned", "SyntaxError", "TypeError", "CallbackError"}

\* -------------------------------------------------------------- properties
\* the handler has run for msg and is over
Done == pc = "idle" /\ outcome # "none"
\* msg is an envelope on the listener's channel with an integer opcode
IntegerOp == msg.channel = channel /\ msg.raw.kind = "object" /\ msg.raw.op.t = "number"
InvokedKeys == {invoked[i].uuid : i \in 1..Len(invoked)}
Times(u) == Cardinality({i \in 1..Len(invoked) : invoked[i].uuid = u})
\* a step in which the transport invokes the handler
HandlerStep == pc = "idle" /\ lastCall' = NoCall /\ sub' = sub
\* a step in which the handler invokes a callback (the last of invoked')
Invokes == pc' = "callback" /\ (pc = "idle" \/ Len(invoked') = Len(invoked) + 1)
\* a step in which removeListener(target) is called (every other step
\* leaves another call or none in lastCall)
Removes(target) == lastCall'.op = "removeListener" /\ lastCall'.arg = target
\* target is an identifier or an opcode that nothing in m has
NamesNothing(m, target) ==
    \/ TypeOf(target) = "string" /\ target.s \notin Keys(m)
    \/ TypeOf(target) = "number" /\ Carrying(m, target) = {}

\* C1: when the handler is over for a message (op, p) the executor published
\* on the channel, every registration that carried op when the message was
\* delivered has been invoked exactly once, with a payload equal to p under
\* the codec.
C1_PublishedReachesEveryRegistration ==
    \A op \in Opcodes, p \in Payloads :
        (Done /\ msg = [channel |-> channel, raw |-> JSONstringify(Num(op), p)])
            => \A u \in atStart :
                   /\ Times(u) = 1
                   /\ \A i \in 1..Len(invoked) :
                          invoked[i].uuid = u => ToJSON(invoked[i].d) = ToJSON(p)

\* C2: the callbacks a dispatch that ran to its end has invoked are exactly
\* the registrations that carried the message's opcode when it started,
\* whatever the callbacks registered or removed meanwhile.
C2_SnapshotAtDispatchStart ==
    (Done /\ outcome = "returned" /\ IntegerOp) => InvokedKeys = atStart

\* C3: no error of a callback leaves the handler, and the registrations that
\* carried the message's opcode from the start of the dispatch to its end
\* have all been invoked.
C3_CallbackErrorIsolated ==
    /\ outcome # "CallbackError"
    /\ (Done /\ IntegerOp) =>
           (atStart \cap Carrying(callbacks, msg.raw.op)) \subseteq InvokedKeys

\* C4: the handler returns without an error, invokes nothing and leaves the
\* registry alone when the message on its channel is no envelope.
C4_MalformedDropped ==
    [][(HandlerStep /\ msg'.channel = channel /\ msg'.raw.kind # "object")
          => (outcome' = "returned" /\ invoked' = <<>> /\ callbacks' = callbacks)]_vars

\* C5: a message whose op is not an integer invokes no callback.
C5_NonIntegerOpInvokesNothing ==
    (msg.channel = channel /\ msg.raw.kind = "object" /\ msg.raw.op.t # "number")
        => invoked = <<>>

\* C6: the handler invoked with a message of another channel returns at once:
\* no callback is invoked and nothing of the listener changes.
C6_OtherChannelIgnored ==
    [][(HandlerStep /\ msg'.channel # channel)
          => /\ invoked' = <<>> /\ pc' = "idle" /\ outcome' = "returned"
             /\ callbacks' = callbacks /\ issued' = issued /\ pos' = pos]_vars

\* a message of another channel was ignored while a registration for its
\* opcode was live
C6_Witness ==
    /\ msg.channel = "other" /\ outcome = "returned" /\ invoked = <<>>
    /\ Carrying(callbacks, msg.raw.op) # {}

\* C7: whenever the handler invokes a callback for a message with an integer
\* opcode, the callback's registration is live and carries that opcode.
C7_OnlyMatchingOpcode ==
    [][(Invokes /\ msg'.raw.op.t = "number")
          => invoked'[Len(invoked')].uuid \in Carrying(callbacks, msg'.raw.op)]_vars

\* a dispatch of opcode 1 is over; it passed the registration for opcode 2
\* and invoked the one for opcode 1
C7_Witness ==
    /\ Done /\ outcome = "returned" /\ msg.raw.op = Num(1)
    /\ callbacks = <<Entry("u1", 2), Entry("u2", 1)>>
    /\ atStart = {"u2"} /\ InvokedKeys = {"u2"}

C9_RemoveByOpcodeAll ==
    [][\A o \in Opcodes :
           Removes(Num(o))
               => /\ callbacks' = SelectSeq(callbacks, LAMBDA e : e.code # o)
                  /\ Carrying(callbacks', Num(o)) = {}]_vars

\* a callback for opcode 1 has called removeListener(1): both registrations
\* that carried opcode 1 are gone and the one for opcode 2 is left
C9_Witness ==
    /\ pc = "callback"
    /\ lastCall = [op |-> "removeListener", arg |-> Num(1), threw |-> FALSE, pub |-> 0]
    /\ atStart = {"u1", "u2"}
    /\ callbacks = <<Entry("u3", 2)>>

\* C10: removeListener with an identifier or opcode that names nothing throws
\* nothing and leaves the registry and a running dispatch as they were; after
\* any removeListener its target names nothing, so a second call with the
\* same target changes nothing.
C10_RemoveUnknownIsNoOp ==
    [][\A t \in Targets :
           Removes(t)
               => /\ NamesNothing(callbacks, t)
                      => callbacks' = callbacks /\ ~lastCall'.threw /\ pos' = pos
                  /\ TypeOf(t) \in {"string", "number"}
                      => /\ NamesNothing(callbacks', t)
                         /\ RemoveListenerResult(callbacks', t).map = callbacks']_vars

\* removeListener was called with an identifier no registration has while
\* registrations were live
C10_Witness ==
    /\ lastCall = [op |-> "removeListener", arg |-> Str("1"), threw |-> FALSE, pub |-> 0]
    /\ callbacks # <<>>

\* the place of an identifier in the order randomUUID() returned them, which
\* is the order of the onMessage calls
IssueOrder(u) == CHOOSE i \in 1..Len(UUIDNames) : UUIDNames[i] = u
InvokedOrder == [i \in 1..Len(invoked) |-> invoked[i].uuid]

\* C11: every onMessage call throws nothing, appends one registration with
\* the given opcode under an identifier no earlier call returned (removed
\* ones included) and leaves the registrations before it as they were.
C11_OnMessageFreshId ==
    [][lastCall'.op = "onMessage"
          => /\ ~lastCall'.threw
             /\ \E u \in UUIDs \ issued :
                    /\ callbacks' = Append(callbacks, Entry(u, lastCall'.arg.n))
                    /\ issued' = issued \cup {u}]_vars

\* onMessage was called after the registration u1 had been removed: the new
\* registration has the identifier u2
C11_Witness ==
    /\ lastCall.op = "onMessage"
    /\ issued = {"u1", "u2"}
    /\ Keys(callbacks) = {"u2"}

\* C12: removeListener with a target that is neither a string nor a number
\* throws and leaves the registry and a running dispatch as they were.
C12_RemoveBadTargetThrows ==
    [][\A t \in Targets :
           (Removes(t) /\ TypeOf(t) \notin {"string", "number"})
               => lastCall'.threw /\ callbacks' = callbacks /\ pos' = pos]_vars

\* removeListener(undefined) has thrown while registrations were live
C12_Witness ==
    /\ lastCall = [op |-> "removeListener", arg |-> Undefined, threw |-> TRUE, pub |-> 0]
    /\ callbacks # <<>>

\* C13: every sendMessage call makes exactly one redis.publish call; when the
\* transport accepts it the envelope {op, d} is the one message added on the
\* channel, and when the transport fails it nothing is added or tried again.
C13_OnePublishPerSend ==
    [][lastCall'.op = "sendMessage"
          => /\ lastCall'.pub = 1
             /\ IF lastCall'.threw
                THEN wire' = wire
                ELSE \E d \in Payloads :
                         wire' = Append(wire, [channel |-> channel,
                                               raw |-> ObjectText(lastCall'.arg, ToJSON(d))])]_vars

\* a publish is in flight and the transport has failed the next sendMessage:
\* one redis.publish call was made and nothing was added
C13_Witness ==
    /\ lastCall = [op |-> "sendMessage", arg |-> Num(1), threw |-> TRUE, pub |-> 1]
    /\ Len(wire) = 1

\* C14: the callbacks of one dispatch are invoked in the order of the
\* onMessage calls that registered them.
C14_InvokedInInsertionOrder ==
    \A i, j \in 1..Len(invoked) :
        i < j => IssueOrder(invoked[i].uuid) < IssueOrder(invoked[j].uuid)

\* u1, u2, u3 were registered in this order, u2 was removed, and a dispatch
\* has invoked u1 and then u3
C14_Witness ==
    /\ Done /\ outcome = "returned"
    /\ issued = {"u1", "u2", "u3"}
    /\ atStart = {"u1", "u3"}
    /\ InvokedOrder = <<"u1", "u3">>

\* C16: a failed subscribe is caught and written to the log, and after it
\* onMessage still appends a registration and removeListener still removes
\* the one it names, without throwing.
C16_SubscribeFailureLogged ==
    [][/\ sub' # "unhandled"
       /\ sub' = "failed" => log' = <<"RPC Error">>
       /\ sub = "failed" =>
              /\ lastCall'.op = "onMessage" =>
                     /\ ~lastCall'.threw
                     /\ Len(callbacks') = Len(callbacks) + 1
                     /\ callbacks'[Len(callbacks')].code = lastCall'.arg.n
              /\ \A u \in Keys(callbacks) :
                     Removes(Str(u)) =>
                         ~lastCall'.threw /\ Keys(callbacks') = Keys(callbacks) \ {u}]_vars

\* the subscribe has failed and was logged; u1 and u2 were registered and u1
\* was then removed by its identifier
C16_Witness ==
    /\ sub = "failed" /\ log = <<"RPC Error">>
    /\ lastCall.op = "removeListener" /\ lastCall.arg = Str("u1")
    /\ Keys(callbacks) = {"u2"}

\* C17 (frame): only onMessage and removeListener change the registry: the
\* handler, the return or throw of a callback and sendMessage leave it as it
\* is.
C17_RegistrationsPersist ==
    [][lastCall'.op \notin {"onMessage", "removeListener"}
          => callbacks' = callbacks]_vars

\* C17: a registration is invoked on every message carrying its opcode while
\* it is live: when the callbacks of a dispatch have left the registry as it
\* was, the dispatch has invoked every registration carrying the opcode.
C17_LiveRegistrationInvoked ==
    (/\ Done /\ IntegerOp
     /\ nStart = Len(callbacks)
     /\ atStart = Carrying(callbacks, msg.raw.op))
        => atStart \subseteq InvokedKeys

\* C18: no registration is invoked twice in one dispatch.
C18_InvokedAtMostOnce ==
    \A u \in UUIDs : Times(u) <= 1

\* during the dispatch u1 was removed and u3 was registered for the same
\* opcode; u1, u2 and u3 were each invoked once
C18_Witness ==
    /\ Done /\ outcome = "returned"
    /\ atStart = {"u1", "u2"}
    /\ Keys(callbacks) = {"u2", "u3"}
    /\ InvokedOrder = <<"u1", "u2", "u3">>

\* C19: the handler invokes, for one message, at most as many callbacks as
\* there were registrations when it was invoked, even when the callbacks
\* register callbacks for the message's opcode meanwhile.
C19_InvocationsBoundedByStart ==
    (msg.channel = channel /\ outcome # "none") => Len(invoked) <= nStart

====
